---- MODULE Spec2Model ----
(***************************************************************************)
(* Model of the useGamepad hook (src/src/useGamepad.js).                   *)
(*                                                                         *)
(* The hook keeps four pieces of React state (gamepads, buttonStates,      *)
(* axisStates, isGamepadConnected) and one ref (prevTimestamps).  They are *)
(* written by the two window event handlers, by the mount effect and by    *)
(* the interval callback checkGamepadInputs, and read by four queries.     *)
(* The host (navigator.getGamepads and the gamepadconnected /              *)
(* gamepaddisconnected events) is the environment: it changes its device   *)
(* list on its own and its notifications are handled later, one at a time, *)
(* on the same thread as the timer callback.                               *)
(*                                                                         *)
(* Axis values are fixed-point integers in units of 10^-5, so that         *)
(* 0.1 is 10000 and rounding to four decimals is arithmetic on integers.   *)
(* A JS object keyed by index is a function whose DOMAIN is its key set.   *)
(***************************************************************************)
EXTENDS Integers, Sequences, FiniteSets, TLC

\* ---------------------------------------------------------------- bounds
MaxSlot == 1        \* host slots are 0..MaxSlot
MaxTs == 2          \* host timestamps are 0..MaxTs (0 is the falsy one)
MaxPending == 1     \* notifications raised by the host and not yet handled
MaxHostEvents == 3  \* attachments, removals and input reports of the host in one run

Slots == 0..MaxSlot
Timestamps == 0..MaxTs

\* ------------------------------------------------------------- constants
DefaultDeadzone == 10000                    \* deadzone = 0.1
Deadzones == {DefaultDeadzone, 20000}       \* values passed as options.deadzone

PadId == "pad"
Pressed == [pressed |-> TRUE, value |-> 100, touched |-> "true"]
Released == [pressed |-> FALSE, value |-> 0, touched |-> "undefined"]

\* Raw inputs (buttons, axes) the host reports in the main specification: one
\* pad with a pressed button and a deflected stick, one with a released and a
\* pressed button whose second axis rounds down onto the default deadzone.
RawInputs ==
    {[buttons |-> <<Pressed>>, axes |-> <<23456>>],
     [buttons |-> <<Released, Pressed>>, axes |-> <<50000, 10004>>]}

\* Raw axis values of the normalizer specification: both signs, values on each
\* side of both deadzones, the deadzones themselves and exact ties of the
\* fourth decimal that a double represents exactly (multiples of 1/32).
NormAxisValues ==
    {0, 4, 5000, 10000, -10000, 10004, 10005, 15625, -15625, 20000, 20004,
     23456, -23456, 50000, 99996, -100000}
NormAxisLists ==
    {<<>>} \cup {<<v>> : v \in NormAxisValues}
           \cup {<<v, w>> : v \in {5000, -23456}, w \in NormAxisValues}
NormInputs ==
    {[buttons |-> b, axes |-> a] : b \in {<<>>, <<Released, Pressed>>}, a \in NormAxisLists}

VARIABLES
    host,               \* navigator.getGamepads(): slot -> snapshot (absent: null)
    hasGetGamepads,     \* whether navigator.getGamepads exists
    pending,            \* host notifications not yet dispatched (FIFO)
    hostEvents,         \* how many times the host has changed its device list
    phase,              \* "init" (rendered, effect not run), "active", "committed"
                        \* (re-rendered, effect of the new render not run), "unmounted"
    deadzone,           \* options.deadzone of the latest render
    gamepads,           \* useState: slot -> descriptor
    buttonStates,       \* useState: slot -> (index -> button state)
    axisStates,         \* useState: slot -> (index -> value)
    isGamepadConnected, \* useState
    prevTimestamps,     \* useRef: slot -> last timestamp seen
    announced,          \* history: slots whose attach notification was handled and that
                        \* no tick has found in the host list since (nor a detach removed)
    timers,             \* running intervals: id -> deadzone its callback closed over
    intervalRef,        \* useRef: {id} of the interval last started, {} when cleared
    listeners           \* registered handler pairs, each named by the effect run that added it

vars == <<host, hasGetGamepads, pending, hostEvents, phase, deadzone, gamepads, buttonStates,
          axisStates, isGamepadConnected, prevTimestamps, announced, timers, intervalRef,
          listeners>>

hostVars == <<host, hasGetGamepads, pending, hostEvents>>
storeVars == <<gamepads, buttonStates, axisStates, isGamepadConnected, prevTimestamps, announced>>
effectVars == <<timers, intervalRef, listeners>>

\* ------------------------------------------------------- object helpers
\* { ...prev, [k]: v }
Put(prev, k, v) == [x \in DOMAIN prev \cup {k} |-> IF x = k THEN v ELSE prev[x]]

\* const updated = { ...prev }; delete updated[k]
Delete(prev, k) == [x \in DOMAIN prev \ {k} |-> prev[x]]

Empty == [x \in {} |-> 0]

Abs(v) == IF v < 0 THEN -v ELSE v

\* a list as the object forEach builds from it: index 0..n-1 -> f(element)
Indices(list) == 0..(Len(list) - 1)

\* ------------------------------------------------------------ the host
Snapshot(s, ts, buttons, axes) ==
    [index |-> s, id |-> PadId, timestamp |-> ts, buttons |-> buttons, axes |-> axes]

\* the query made without the test for the capability
GetGamepadsUnguarded == [length |-> MaxSlot + 1, pads |-> host]

\* navigator.getGamepads ? navigator.getGamepads() : []
\* The array has one entry per slot; a slot outside DOMAIN pads holds null.
GetGamepads ==
    IF hasGetGamepads
    THEN [length |-> MaxSlot + 1, pads |-> host]
    ELSE [length |-> 0, pads |-> Empty]

\* what an event carries: event.gamepad
Descriptor(s) == [index |-> s, id |-> PadId]

\* the host plugs a device in, gives it the lowest free slot and raises gamepadconnected
HostAttachFrom(s, inputs) ==
    /\ s \notin DOMAIN host
    /\ \A lower \in 0..(s - 1) : lower \in DOMAIN host
    /\ Len(pending) < MaxPending
    /\ hostEvents < MaxHostEvents
    /\ hostEvents' = hostEvents + 1
    /\ \E ts \in Timestamps, raw \in inputs :
           host' = Put(host, s, Snapshot(s, ts, raw.buttons, raw.axes))
    /\ pending' = Append(pending, [type |-> "gamepadconnected", gamepad |-> Descriptor(s)])
    /\ UNCHANGED <<hasGetGamepads, phase, deadzone, storeVars, effectVars>>

HostAttach(s) == HostAttachFrom(s, RawInputs)

\* the host loses the device of a slot and raises gamepaddisconnected
HostDetach(s) ==
    /\ s \in DOMAIN host
    /\ Len(pending) < MaxPending
    /\ hostEvents < MaxHostEvents
    /\ hostEvents' = hostEvents + 1
    /\ host' = Delete(host, s)
    /\ pending' = Append(pending, [type |-> "gamepaddisconnected", gamepad |-> Descriptor(s)])
    /\ UNCHANGED <<hasGetGamepads, phase, deadzone, storeVars, effectVars>>

\* the device of a slot is pulled and another one plugged into the same slot before
\* the host dispatches anything: both notifications are raised, one after the other,
\* and the new device starts with a timestamp of its own
HostReplug(s) ==
    /\ s \in DOMAIN host
    /\ pending = <<>>
    /\ hostEvents < MaxHostEvents
    /\ hostEvents' = hostEvents + 1
    /\ \E ts \in Timestamps, raw \in RawInputs :
           host' = Put(host, s, Snapshot(s, ts, raw.buttons, raw.axes))
    /\ pending' = <<[type |-> "gamepaddisconnected", gamepad |-> Descriptor(s)],
                    [type |-> "gamepadconnected", gamepad |-> Descriptor(s)]>>
    /\ UNCHANGED <<hasGetGamepads, phase, deadzone, storeVars, effectVars>>

\* the device of a slot reports new input: a later timestamp, any buttons and axes
HostUpdateFrom(s, inputs) ==
    /\ s \in DOMAIN host
    /\ host[s].timestamp < MaxTs
    /\ hostEvents < MaxHostEvents
    /\ hostEvents' = hostEvents + 1
    /\ \E ts \in Timestamps, raw \in inputs :
           /\ ts > host[s].timestamp
           /\ host' = Put(host, s, Snapshot(s, ts, raw.buttons, raw.axes))
    /\ UNCHANGED <<hasGetGamepads, pending, phase, deadzone, storeVars, effectVars>>

HostUpdate(s) == HostUpdateFrom(s, RawInputs)

\* ------------------------------------------------------ the normalizer
\* axisValue.toFixed(4): sign and digits of the nearest multiple of 10^-4; of two
\* equally near ones toFixed takes the larger n (of the magnitude).
ToFixed4(axisValue) == [neg |-> axisValue < 0, n |-> (Abs(axisValue) + 5) \div 10]

\* parseFloat of the string toFixed made ("-0.0000" parses to a zero)
ParseFloat(str) == IF str.neg THEN 0 - (str.n * 10) ELSE str.n * 10

\* the rounding without the deadzone
NormalizeAxisUnfiltered(axisValue, dz) == ParseFloat(ToFixed4(axisValue))

\* the comparison with the deadzone made inclusive
NormalizeAxisInclusive(axisValue, dz) ==
    IF Abs(axisValue) >= dz THEN ParseFloat(ToFixed4(axisValue)) ELSE 0

NormalizeAxis(axisValue, dz) ==
    IF Abs(axisValue) > dz THEN ParseFloat(ToFixed4(axisValue)) ELSE 0

\* the buttons put through the deadzone like the axes
PadButtonsThresholded(buttons) ==
    [index \in Indices(buttons) |->
        [pressed |-> buttons[index + 1].pressed,
         value   |-> IF buttons[index + 1].value > deadzone
                     THEN buttons[index + 1].value ELSE 0,
         touched |-> buttons[index + 1].touched]]

PadButtons(buttons) ==
    [index \in Indices(buttons) |->
        [pressed |-> buttons[index + 1].pressed,
         value   |-> buttons[index + 1].value,
         touched |-> buttons[index + 1].touched]]

PadAxes(axes, dz) ==
    [index \in Indices(axes) |-> NormalizeAxis(axes[index + 1], dz)]

\* ---------------------------------------------------------- the poller
\* the change test without the comparison with the stored timestamp
TimestampTruthy(gamepad, ts) == gamepad.timestamp # 0

\* the change test comparing for order: only a later timestamp counts
TimestampNewer(gamepad, ts) ==
    /\ gamepad.timestamp # 0
    /\ \/ gamepad.index \notin DOMAIN ts
       \/ ts[gamepad.index] < gamepad.timestamp

\* gamepad.timestamp && gamepad.timestamp !== prevTimestamps.current[gamepad.index]
TimestampChanged(gamepad, ts) ==
    /\ gamepad.timestamp # 0
    /\ \/ gamepad.index \notin DOMAIN ts
       \/ ts[gamepad.index] # gamepad.timestamp

\* The loop of checkGamepadInputs from index i on.  st carries the ref and the two
\* states the functional updaters build up, and counts the setState calls made.
RECURSIVE CheckLoop(_, _, _, _)
CheckLoop(i, currentGamepads, dz, st) ==
    IF i >= currentGamepads.length THEN st
    ELSE IF i \notin DOMAIN currentGamepads.pads THEN CheckLoop(i + 1, currentGamepads, dz, st)
    ELSE LET gamepad == currentGamepads.pads[i] IN
         IF TimestampChanged(gamepad, st.prevTimestamps)
         THEN CheckLoop(i + 1, currentGamepads, dz,
                [prevTimestamps |-> Put(st.prevTimestamps, gamepad.index, gamepad.timestamp),
                 buttonStates   |-> Put(st.buttonStates, gamepad.index, PadButtons(gamepad.buttons)),
                 axisStates     |-> Put(st.axisStates, gamepad.index, PadAxes(gamepad.axes, dz)),
                 writes         |-> st.writes + 2])
         ELSE CheckLoop(i + 1, currentGamepads, dz, st)

\* the tick publishing the buttons only
CheckGamepadInputsButtonsOnly(dz) ==
    LET r == CheckLoop(0, GetGamepads, dz,
                       [prevTimestamps |-> prevTimestamps, buttonStates |-> buttonStates,
                        axisStates |-> axisStates, writes |-> 0])
    IN [prevTimestamps |-> r.prevTimestamps,
        buttonStates   |-> r.buttonStates,
        axisStates     |-> axisStates,
        writes         |-> r.writes]

\* the tick spreading the previous mapping of a pad under the new one
\* ({ ...prev[index], ...padButtons }) instead of replacing it
CheckGamepadInputsMerging(dz) ==
    LET r == CheckLoop(0, GetGamepads, dz,
                       [prevTimestamps |-> prevTimestamps, buttonStates |-> buttonStates,
                        axisStates |-> axisStates, writes |-> 0])
        Merge(old, new) == [k \in DOMAIN old \cup DOMAIN new |->
                              IF k \in DOMAIN new THEN new[k] ELSE old[k]]
        Merged(before, after) ==
            [s \in DOMAIN after |->
                IF s \in DOMAIN before THEN Merge(before[s], after[s]) ELSE after[s]]
    IN [prevTimestamps |-> r.prevTimestamps,
        buttonStates   |-> Merged(buttonStates, r.buttonStates),
        axisStates     |-> Merged(axisStates, r.axisStates),
        writes         |-> r.writes]

CheckGamepadInputs(dz) ==
    CheckLoop(0, GetGamepads, dz,
              [prevTimestamps |-> prevTimestamps, buttonStates |-> buttonStates,
               axisStates |-> axisStates, writes |-> 0])

\* one firing of a running interval
PollTick(t) ==
    /\ t \in DOMAIN timers
    /\ LET r == CheckGamepadInputs(timers[t]) IN
         /\ prevTimestamps' = r.prevTimestamps
         /\ buttonStates' = r.buttonStates
         /\ axisStates' = r.axisStates
    /\ announced' = announced \ {i \in DOMAIN GetGamepads.pads : i < GetGamepads.length}
    /\ UNCHANGED <<hostVars, phase, deadzone, gamepads, isGamepadConnected, effectVars>>

\* ---------------------------------------------------- connection tracker
\* the attach handler without the reset of the stored timestamp
HandleGamepadConnectedKeepsTimestamp ==
    /\ pending # <<>>
    /\ Head(pending).type = "gamepadconnected"
    /\ listeners # {}
    /\ LET gamepad == Head(pending).gamepad IN
         /\ gamepads' = Put(gamepads, gamepad.index, gamepad)
         /\ isGamepadConnected' = TRUE
         /\ announced' = announced \cup {gamepad.index}
    /\ pending' = Tail(pending)
    /\ UNCHANGED <<host, hasGetGamepads, hostEvents, phase, deadzone, buttonStates, axisStates,
                   prevTimestamps, effectVars>>

HandleGamepadConnected ==
    /\ pending # <<>>
    /\ Head(pending).type = "gamepadconnected"
    /\ listeners # {}
    /\ LET gamepad == Head(pending).gamepad IN
         /\ gamepads' = Put(gamepads, gamepad.index, gamepad)
         /\ prevTimestamps' = Put(prevTimestamps, gamepad.index, 0)
         /\ isGamepadConnected' = TRUE
         /\ announced' = announced \cup {gamepad.index}
    /\ pending' = Tail(pending)
    /\ UNCHANGED <<host, hasGetGamepads, hostEvents, phase, deadzone, buttonStates, axisStates, effectVars>>

\* the flag taken from the local device mapping instead of the host's list
SomeConnectedLocally(remaining) == DOMAIN gamepads # {}

\* Array.from(remaining).some((gp) => gp !== null)
SomeConnected(remaining) == \E i \in DOMAIN remaining.pads : i < remaining.length

\* the detach handler clearing the flag without asking the host
HandleGamepadDisconnectedClearsFlag ==
    /\ pending # <<>>
    /\ Head(pending).type = "gamepaddisconnected"
    /\ listeners # {}
    /\ LET gamepad == Head(pending).gamepad IN
         /\ gamepads' = Delete(gamepads, gamepad.index)
         /\ buttonStates' = Delete(buttonStates, gamepad.index)
         /\ axisStates' = Delete(axisStates, gamepad.index)
         /\ prevTimestamps' = Delete(prevTimestamps, gamepad.index)
         /\ isGamepadConnected' = FALSE
         /\ announced' = announced \ {gamepad.index}
    /\ pending' = Tail(pending)
    /\ UNCHANGED <<host, hasGetGamepads, hostEvents, phase, deadzone, effectVars>>

\* the detach handler resetting the stored timestamp instead of deleting it
HandleGamepadDisconnectedResetsTimestamp ==
    /\ pending # <<>>
    /\ Head(pending).type = "gamepaddisconnected"
    /\ listeners # {}
    /\ LET gamepad == Head(pending).gamepad IN
         /\ gamepads' = Delete(gamepads, gamepad.index)
         /\ buttonStates' = Delete(buttonStates, gamepad.index)
         /\ axisStates' = Delete(axisStates, gamepad.index)
         /\ prevTimestamps' = Put(prevTimestamps, gamepad.index, 0)
         /\ isGamepadConnected' = SomeConnected(GetGamepads)
         /\ announced' = announced \ {gamepad.index}
    /\ pending' = Tail(pending)
    /\ UNCHANGED <<host, hasGetGamepads, hostEvents, phase, deadzone, effectVars>>

\* the detach handler without the removal from axisStates
HandleGamepadDisconnectedKeepsAxes ==
    /\ pending # <<>>
    /\ Head(pending).type = "gamepaddisconnected"
    /\ listeners # {}
    /\ LET gamepad == Head(pending).gamepad IN
         /\ gamepads' = Delete(gamepads, gamepad.index)
         /\ buttonStates' = Delete(buttonStates, gamepad.index)
         /\ prevTimestamps' = Delete(prevTimestamps, gamepad.index)
         /\ isGamepadConnected' = SomeConnected(GetGamepads)
         /\ announced' = announced \ {gamepad.index}
    /\ pending' = Tail(pending)
    /\ UNCHANGED <<host, hasGetGamepads, hostEvents, phase, deadzone, axisStates, effectVars>>

HandleGamepadDisconnected ==
    /\ pending # <<>>
    /\ Head(pending).type = "gamepaddisconnected"
    /\ listeners # {}
    /\ LET gamepad == Head(pending).gamepad IN
         /\ gamepads' = Delete(gamepads, gamepad.index)
         /\ buttonStates' = Delete(buttonStates, gamepad.index)
         /\ axisStates' = Delete(axisStates, gamepad.index)
         /\ prevTimestamps' = Delete(prevTimestamps, gamepad.index)
         /\ isGamepadConnected' = SomeConnected(GetGamepads)
         /\ announced' = announced \ {gamepad.index}
    /\ pending' = Tail(pending)
    /\ UNCHANGED <<host, hasGetGamepads, hostEvents, phase, deadzone, effectVars>>

\* an event dispatched while no handler is registered reaches nobody
DropNotification ==
    /\ pending # <<>>
    /\ listeners = {}
    /\ pending' = Tail(pending)
    /\ UNCHANGED <<host, hasGetGamepads, hostEvents, phase, deadzone, storeVars, effectVars>>

\* ------------------------------------------------------ the mount effect
\* setInterval returns an id no running interval has
FreshTimer(running) == CHOOSE id \in 1..(Cardinality(DOMAIN running) + 1) : id \notin DOMAIN running

\* the scan without the reset of the stored timestamps
InitialScanKeepsTimestamps(initialGamepads, gp, ts, flag) ==
    LET present == {i \in DOMAIN initialGamepads.pads : i < initialGamepads.length}
        connectedPads == [i \in present |->
                            [index |-> initialGamepads.pads[i].index,
                             id |-> initialGamepads.pads[i].id]]
        hasConnected == present # {}
    IN [gamepads |-> IF hasConnected THEN connectedPads ELSE gp,
        prevTimestamps |-> ts,
        isGamepadConnected |-> IF hasConnected THEN TRUE ELSE flag]

\* the scan leaving the flag to the attach handler
InitialScanKeepsFlag(initialGamepads, gp, ts, flag) ==
    LET present == {i \in DOMAIN initialGamepads.pads : i < initialGamepads.length}
        connectedPads == [i \in present |->
                            [index |-> initialGamepads.pads[i].index,
                             id |-> initialGamepads.pads[i].id]]
        hasConnected == present # {}
    IN [gamepads |-> IF hasConnected THEN connectedPads ELSE gp,
        prevTimestamps |-> [x \in DOMAIN ts \cup present |-> IF x \in present THEN 0 ELSE ts[x]],
        isGamepadConnected |-> flag]

\* the scan of the effect body: what it leaves in gamepads, prevTimestamps and the flag
InitialScan(initialGamepads, gp, ts, flag) ==
    LET present == {i \in DOMAIN initialGamepads.pads : i < initialGamepads.length}
        connectedPads == [i \in present |->
                            [index |-> initialGamepads.pads[i].index,
                             id |-> initialGamepads.pads[i].id]]
        hasConnected == present # {}
    IN [gamepads |-> IF hasConnected THEN connectedPads ELSE gp,
        prevTimestamps |-> [x \in DOMAIN ts \cup present |-> IF x \in present THEN 0 ELSE ts[x]],
        isGamepadConnected |-> IF hasConnected THEN TRUE ELSE flag]

\* the cleanup without the removeEventListener calls
CleanupKeepsListeners(running, ref, registered) ==
    [timers |-> [t \in DOMAIN running \ ref |-> running[t]], listeners |-> registered]

\* the cleanup without the clearInterval
CleanupKeepsInterval(running, ref, registered) ==
    [timers |-> running, listeners |-> registered \ ref]

\* The cleanup the effect returned: removeEventListener for the two handlers that
\* run of the effect registered (named, like the run, by the interval it started,
\* which is the one intervalRef holds) and clearInterval(intervalRef.current).
\* Removing a handler that is not registered and clearing an interval that is not
\* running do nothing.
Cleanup(running, ref, registered) ==
    [timers |-> [t \in DOMAIN running \ ref |-> running[t]],
     listeners |-> registered \ ref]

\* the effect body run with the options of the render dz, on effect state (running, registered)
RunEffect(dz, running, registered) ==
    LET scan == InitialScan(GetGamepads, gamepads, prevTimestamps, isGamepadConnected)
        id == FreshTimer(running)
    IN /\ listeners' = registered \cup {id}
       /\ gamepads' = scan.gamepads
       /\ prevTimestamps' = scan.prevTimestamps
       /\ isGamepadConnected' = scan.isGamepadConnected
       /\ timers' = Put(running, id, dz)
       /\ intervalRef' = {id}

\* first run of the effect, after the first render
SessionStart ==
    /\ phase = "init"
    /\ phase' = "active"
    /\ RunEffect(deadzone, timers, listeners)
    /\ UNCHANGED <<hostVars, deadzone, buttonStates, axisStates, announced>>

\* a render with a changed deadzone or pollInterval: cleanup, then the effect again
Restart(dz) ==
    /\ phase = "active"
    /\ deadzone' = dz
    /\ LET c == Cleanup(timers, intervalRef, listeners) IN RunEffect(dz, c.timers, c.listeners)
    /\ UNCHANGED <<hostVars, phase, buttonStates, axisStates, announced>>

\* A render with a changed deadzone or pollInterval is committed: the queries of the
\* new render use its deadzone at once, while the effect (and the cleanup of the
\* previous one) is left to run later.
Render(dz) ==
    /\ phase = "active"
    /\ phase' = "committed"
    /\ deadzone' = dz
    /\ UNCHANGED <<hostVars, storeVars, effectVars>>

\* the deferred effect of the committed render: cleanup of the previous run, then the body
FlushEffect ==
    /\ phase = "committed"
    /\ phase' = "active"
    /\ LET c == Cleanup(timers, intervalRef, listeners) IN RunEffect(deadzone, c.timers, c.listeners)
    /\ UNCHANGED <<hostVars, deadzone, buttonStates, axisStates, announced>>

\* unmount: the cleanup alone
Teardown ==
    /\ phase \in {"active", "committed"}
    /\ phase' = "unmounted"
    /\ LET c == Cleanup(timers, intervalRef, listeners) IN
         /\ timers' = c.timers
         /\ listeners' = c.listeners
    /\ UNCHANGED <<hostVars, deadzone, storeVars, intervalRef>>

\* the cleanup of the last effect run called a second time
TeardownAgain ==
    /\ phase = "unmounted"
    /\ LET c == Cleanup(timers, intervalRef, listeners) IN
         /\ timers' = c.timers
         /\ listeners' = c.listeners
    /\ UNCHANGED <<hostVars, phase, deadzone, storeVars, intervalRef>>

\* -------------------------------------------------------- query facade
\* A value that may be undefined, for the optional chaining of the queries.
Undefined == [def |-> FALSE]
Defined(v) == [def |-> TRUE, val |-> v]

\* obj?.[k]: undefined when obj is, or when obj has no key k
Chain(obj, k) ==
    IF obj.def /\ k \in DOMAIN obj.val THEN Defined(obj.val[k]) ELSE Undefined

\* keys of an object with integer keys, in the order for-in and Object.values use
FirstKey(keys) == CHOOSE k \in keys : \A j \in keys : k <= j

\* the Array.prototype.some of isButtonPressed with every pad made to qualify
RECURSIVE EveryPad(_, _)
EveryPad(keys, buttonIndex) ==
    IF keys = {} THEN TRUE
    ELSE LET button == Chain(Defined(buttonStates[FirstKey(keys)]), buttonIndex) IN
         IF button.def /\ button.val.pressed
         THEN EveryPad(keys \ {FirstKey(keys)}, buttonIndex)
         ELSE FALSE

\* Object.values(buttonStates).some((padButtons) => padButtons[buttonIndex]?.pressed)
RECURSIVE SomePad(_, _)
SomePad(keys, buttonIndex) ==
    IF keys = {} THEN FALSE
    ELSE LET button == Chain(Defined(buttonStates[FirstKey(keys)]), buttonIndex) IN
         IF button.def /\ button.val.pressed
         THEN TRUE
         ELSE SomePad(keys \ {FirstKey(keys)}, buttonIndex)

isButtonPressed(buttonIndex) == SomePad(DOMAIN buttonStates, buttonIndex)

\* buttonStates[gamepadIndex]?.[buttonIndex]?.pressed || false
isButtonPressedOnGamepad(gamepadIndex, buttonIndex) ==
    LET button == Chain(Chain(Defined(buttonStates), gamepadIndex), buttonIndex) IN
    IF button.def /\ button.val.pressed THEN TRUE ELSE FALSE

\* the loop of getAxisValue walking the pads from the highest key down
RECURSIVE AxisLoopLast(_, _)
AxisLoopLast(keys, axisIndex) ==
    IF keys = {} THEN 0
    ELSE LET padIndex == CHOOSE k \in keys : \A j \in keys : k >= j
             value == Chain(Defined(axisStates[padIndex]), axisIndex)
         IN IF value.def /\ value.val # 0 /\ Abs(value.val) > deadzone
            THEN value.val
            ELSE AxisLoopLast(keys \ {padIndex}, axisIndex)

\* for (const padIndex in axisStates) { const value = axisStates[padIndex][axisIndex];
\*   if (value && Math.abs(value) > deadzone) return value; } return 0
RECURSIVE AxisLoop(_, _)
AxisLoop(keys, axisIndex) ==
    IF keys = {} THEN 0
    ELSE LET padIndex == FirstKey(keys)
             value == Chain(Defined(axisStates[padIndex]), axisIndex)
         IN IF value.def /\ value.val # 0 /\ Abs(value.val) > deadzone
            THEN value.val
            ELSE AxisLoop(keys \ {padIndex}, axisIndex)

getAxisValue(axisIndex) == AxisLoop(DOMAIN axisStates, axisIndex)

\* the scoped axis query with the deadzone test of getAxisValue added
getAxisValueForGamepadFiltered(gamepadIndex, axisIndex) ==
    LET value == Chain(Chain(Defined(axisStates), gamepadIndex), axisIndex) IN
    IF value.def /\ value.val # 0 /\ Abs(value.val) > deadzone THEN value.val ELSE 0

\* axisStates[gamepadIndex]?.[axisIndex] || 0
getAxisValueForGamepad(gamepadIndex, axisIndex) ==
    LET value == Chain(Chain(Defined(axisStates), gamepadIndex), axisIndex) IN
    IF value.def /\ value.val # 0 THEN value.val ELSE 0

\* ------------------------------------------------------ specifications
Init ==
    /\ host = Empty
    /\ hasGetGamepads \in BOOLEAN
    /\ pending = <<>>
    /\ hostEvents = 0
    /\ phase = "init"
    /\ deadzone \in Deadzones
    /\ gamepads = Empty
    /\ buttonStates = Empty
    /\ axisStates = Empty
    /\ isGamepadConnected = FALSE
    /\ prevTimestamps = Empty
    /\ announced = {}
    /\ timers = Empty
    /\ intervalRef = {}
    /\ listeners = {}

Next ==
    \/ \E s \in Slots : HostAttach(s)
    \/ \E s \in Slots : HostDetach(s)
    \/ \E s \in Slots : HostUpdate(s)
    \/ \E t \in DOMAIN timers : PollTick(t)
    \/ HandleGamepadConnected
    \/ HandleGamepadDisconnected
    \/ DropNotification
    \/ SessionStart
    \/ \E dz \in Deadzones : Restart(dz)

Spec == Init /\ [][Next]_vars

\* The whole life of one component with one host slot: renders that restart the
\* session (the effect run with the commit, or deferred so that ticks and
\* notifications come in between), the unmount, the cleanup called once more, and a
\* host that goes on attaching, updating and removing its device after the unmount.
NextLifecycle ==
    \/ HostAttach(0)
    \/ HostDetach(0)
    \/ HostUpdate(0)
    \/ \E t \in DOMAIN timers : PollTick(t)
    \/ HandleGamepadConnected
    \/ HandleGamepadDisconnected
    \/ DropNotification
    \/ SessionStart
    \/ \E dz \in Deadzones : Restart(dz)
    \/ \E dz \in Deadzones : Render(dz)
    \/ FlushEffect
    \/ Teardown
    \/ TeardownAgain

SpecLifecycle == Init /\ [][NextLifecycle]_vars

\* The normalizer on a wide range of raw inputs: one pad in slot 0 that reports
\* any of NormInputs when it is plugged in, polled by a session with either deadzone.
HostAttachNorm == HostAttachFrom(0, NormInputs)

NextNorm ==
    \/ HostAttachNorm
    \/ HostDetach(0)
    \/ \E t \in DOMAIN timers : PollTick(t)
    \/ HandleGamepadConnected
    \/ HandleGamepadDisconnected
    \/ DropNotification
    \/ SessionStart

SpecNorm == Init /\ [][NextNorm]_vars

\* One slot whose device can be swapped between two dispatches, so that a tick
\* meets a device whose timestamp is below the one stored for the slot.
NextReplug ==
    \/ HostAttach(0)
    \/ HostDetach(0)
    \/ HostUpdate(0)
    \/ HostReplug(0)
    \/ \E t \in DOMAIN timers : PollTick(t)
    \/ HandleGamepadConnected
    \/ HandleGamepadDisconnected
    \/ DropNotification
    \/ SessionStart

SpecReplug == Init /\ [][NextReplug]_vars

\* The one-slot session under a fair scheduler: setInterval keeps calling the poll
\* while its interval runs, and the event loop dispatches every queued notification.
NextFresh == NextReplug \/ \E dz \in Deadzones : Restart(dz)

SpecFresh ==
    /\ Init
    /\ [][NextFresh]_vars
    /\ WF_vars(\E t \in DOMAIN timers : PollTick(t))
    /\ WF_vars(HandleGamepadConnected)
    /\ WF_vars(HandleGamepadDisconnected)

\* ---------------------------------------------------------------- claims
\* the step is the tick of timer t; what a tick leaves alone is compared first
TickStep(t) ==
    /\ hostEvents' = hostEvents
    /\ pending' = pending
    /\ timers' = timers
    /\ phase' = phase
    /\ deadzone' = deadzone
    /\ PollTick(t)

\* r is v written with four decimals: a multiple of 10^-4 at most half a unit away
IsRounded4(r, v) == r % 10 = 0 /\ Abs(r - v) <= 5

\* the slots a poll tick run in this state sees as changed
SeenChanged ==
    {s \in DOMAIN GetGamepads.pads :
        /\ host[s].timestamp # 0
        /\ (s \in DOMAIN prevTimestamps => prevTimestamps[s] # host[s].timestamp)}

\* C1: a poll tick that normalizes a device publishes, for every index k of its raw
\* axis list, 0 when the magnitude of the raw value is at most the deadzone (equal
\* included) and the raw value rounded to four decimals when it is greater.
C1_AxisNormalized ==
    [][\A t \in DOMAIN timers : PollTick(t) =>
         \A s \in SeenChanged :
            /\ s \in DOMAIN axisStates'
            /\ DOMAIN axisStates'[s] = 0..(Len(host[s].axes) - 1)
            /\ \A k \in DOMAIN axisStates'[s] :
                  LET v == host[s].axes[k + 1] IN
                  IF Abs(v) <= timers[t]
                  THEN axisStates'[s][k] = 0
                  ELSE IsRounded4(axisStates'[s][k], v)]_vars

\* a pad was normalized whose first axis was rounded and whose second axis sat on the deadzone
C1_Witness ==
    /\ 0 \in DOMAIN host /\ 0 \in DOMAIN axisStates /\ 0 \in DOMAIN prevTimestamps
    /\ prevTimestamps[0] = host[0].timestamp
    /\ host[0].timestamp # 0
    /\ deadzone = 10000
    /\ host[0].axes = <<-23456, 10000>>
    /\ axisStates[0] = (0 :> -23460 @@ 1 :> 0)

\* indices the queries are asked about: those of the raw lists and one beyond them
QueryIndices == 0..2
\* pad indices the scoped queries are asked about: the slots and one beyond them
QueryPads == 0..(MaxSlot + 1)

\* the pads whose stored value for axis a satisfies P
Lowest(S) == CHOOSE k \in S : \A j \in S : k <= j
StoredNonZero(a) ==
    {s \in DOMAIN axisStates : a \in DOMAIN axisStates[s] /\ axisStates[s][a] # 0}
StoredAbove(a) ==
    {s \in DOMAIN axisStates : a \in DOMAIN axisStates[s] /\ Abs(axisStates[s][a]) > deadzone}

\* C2 as claimed: getAxisValue(a) is the stored value of the lowest slot whose stored
\* value for a is non-zero, and 0 when no slot has one.
C2_Original ==
    \A a \in QueryIndices :
        getAxisValue(a) =
            IF StoredNonZero(a) = {} THEN 0 ELSE axisStates[Lowest(StoredNonZero(a))][a]

\* C2 as amended: getAxisValue(a) is the stored value of the lowest slot whose stored
\* value for a has a magnitude greater than the deadzone of the current render, and 0
\* when no slot has one (first match wins; a non-zero stored value that is not above
\* the deadzone is passed over).
C2_FirstAboveDeadzone ==
    \A a \in QueryIndices :
        getAxisValue(a) =
            IF StoredAbove(a) = {} THEN 0 ELSE axisStates[Lowest(StoredAbove(a))][a]

\* two pads hold different values above the deadzone on axis 0 and the lower slot wins
C2_Witness ==
    /\ DOMAIN axisStates = {0, 1}
    /\ axisStates[0][0] = 23460
    /\ axisStates[1][0] = 50000
    /\ getAxisValue(0) = 23460

\* C3: isButtonPressed(b) is true exactly when some slot of buttonStates has an entry
\* for b with pressed = true; a slot without an entry for b counts as not pressed,
\* and the empty store gives false.
C3_AnyPadPressed ==
    \A b \in QueryIndices :
        /\ isButtonPressed(b) \in BOOLEAN
        /\ isButtonPressed(b) <=>
              \E s \in DOMAIN buttonStates :
                  b \in DOMAIN buttonStates[s] /\ buttonStates[s][b].pressed = TRUE
        /\ buttonStates = Empty => ~isButtonPressed(b)

\* slot 0 has no entry for button 1 and a released button 0; slot 1 has both pressed
C3_Witness ==
    /\ DOMAIN buttonStates = {0, 1}
    /\ DOMAIN buttonStates[0] = {0}
    /\ DOMAIN buttonStates[1] = {0, 1}
    /\ ~buttonStates[1][0].pressed
    /\ buttonStates[1][1].pressed
    /\ isButtonPressed(1)
    /\ isButtonPressed(0)
    /\ ~isButtonPressed(2)

\* C4: the scoped queries are lookups with defaults: true / the stored value when the
\* entry exists (pressed, for the button), false / 0 for an absent pad or index.
C4_ScopedLookups ==
    \A d \in QueryPads, i \in QueryIndices :
        /\ isButtonPressedOnGamepad(d, i) =
              IF d \in DOMAIN buttonStates /\ i \in DOMAIN buttonStates[d]
              THEN buttonStates[d][i].pressed ELSE FALSE
        /\ getAxisValueForGamepad(d, i) =
              IF d \in DOMAIN axisStates /\ i \in DOMAIN axisStates[d]
              THEN axisStates[d][i] ELSE 0

\* slot 0 holds a value that rounded down onto the deadzone, slot 1 holds nothing
C4_Witness ==
    /\ DOMAIN axisStates = {0}
    /\ DOMAIN buttonStates = {0}
    /\ deadzone = 10000
    /\ axisStates[0] = (0 :> 50000 @@ 1 :> 10000)
    /\ getAxisValueForGamepad(0, 1) = 10000
    /\ getAxisValueForGamepad(1, 0) = 0
    /\ isButtonPressedOnGamepad(0, 1)
    /\ ~isButtonPressedOnGamepad(0, 0)
    /\ ~isButtonPressedOnGamepad(1, 1)

\* a poll tick run in this state writes nothing
PollQuiet ==
    \A t \in DOMAIN timers :
        LET r == CheckGamepadInputs(timers[t]) IN
        /\ r.writes = 0
        /\ r.prevTimestamps = prevTimestamps
        /\ r.buttonStates = buttonStates
        /\ r.axisStates = axisStates

\* C5: a poll tick leaves a state in which a second tick, run before the host changes
\* a timestamp and before any attach, detach or restart, changes neither the stored
\* timestamps nor buttonStates nor axisStates and makes no store write; no tick
\* touches gamepads or isGamepadConnected.
C5_PollIdempotent ==
    [][(\E t \in DOMAIN timers : TickStep(t)) =>
          /\ PollQuiet'
          /\ gamepads' = gamepads
          /\ isGamepadConnected' = isGamepadConnected]_vars

\* a tick has normalized both pads and another tick would write nothing
C5_Witness ==
    /\ DOMAIN buttonStates = {0, 1}
    /\ DOMAIN host = {0, 1}
    /\ \A s \in {0, 1} : host[s].timestamp # 0 /\ prevTimestamps[s] = host[s].timestamp
    /\ timers # Empty
    /\ PollQuiet

C7_StateOnlyForKnownDevices ==
    (DOMAIN buttonStates \cup DOMAIN axisStates) \subseteq DOMAIN gamepads

\* C8: handling a detach notification for slot s removes the entry of s from
\* gamepads, buttonStates, axisStates and the stored timestamps in one step and
\* leaves every other slot's entries as they were; right after it the scoped queries
\* for s answer false and 0, and isButtonPressed depends on the other slots only.
Without(f, s) == [x \in DOMAIN f \ {s} |-> f[x]]
C8_DetachRemovesSlot ==
    [][\A s \in Slots : (HandleGamepadDisconnected /\ Head(pending).gamepad.index = s) =>
         /\ gamepads' = Without(gamepads, s)
         /\ buttonStates' = Without(buttonStates, s)
         /\ axisStates' = Without(axisStates, s)
         /\ prevTimestamps' = Without(prevTimestamps, s)
         /\ \A x \in QueryIndices :
               /\ ~isButtonPressedOnGamepad(s, x)'
               /\ getAxisValueForGamepad(s, x)' = 0
               /\ isButtonPressed(x)' <=>
                     \E r \in DOMAIN buttonStates \ {s} :
                         x \in DOMAIN buttonStates[r] /\ buttonStates[r][x].pressed]_vars

\* slot 1 was plugged in after slot 0 and is gone from the host and from the whole
\* store, its notification handled, while slot 0 keeps its device entry and state
C8_Witness ==
    /\ phase = "active"
    /\ hostEvents = 3
    /\ pending = <<>>
    /\ DOMAIN host = {0}
    /\ DOMAIN gamepads = {0}
    /\ DOMAIN buttonStates = {0}
    /\ DOMAIN axisStates = {0}
    /\ DOMAIN prevTimestamps = {0}
    /\ isButtonPressed(0)
    /\ ~isButtonPressedOnGamepad(1, 0)

\* the tick of timer t has published the normalized state of the host's slot s
Published(s, t) ==
    /\ s \in DOMAIN buttonStates /\ s \in DOMAIN axisStates /\ s \in DOMAIN prevTimestamps
    /\ buttonStates[s] = PadButtons(host[s].buttons)
    /\ axisStates[s] = PadAxes(host[s].axes, timers[t])
    /\ prevTimestamps[s] = host[s].timestamp

\* objects f and g agree on key s: both lack it or both hold the same value
SameEntry(f, g, s) ==
    /\ s \in DOMAIN f <=> s \in DOMAIN g
    /\ s \in DOMAIN f => f[s] = g[s]

\* the stored timestamp of s is the zero sentinel
Sentinel(s) == s \in DOMAIN prevTimestamps /\ prevTimestamps[s] = 0

\* handling an attach notification for s writes the device entry, the sentinel
\* (whatever timestamp was recorded for s before) and the flag
AttachWritesSentinel ==
    \A s \in Slots : (HandleGamepadConnected /\ Head(pending).gamepad.index = s) =>
        /\ s \in DOMAIN gamepads' /\ gamepads'[s] = Descriptor(s)
        /\ Sentinel(s)'
        /\ isGamepadConnected'
        /\ s \in announced'

\* until a tick finds the announced device in the host list the sentinel stays
SentinelKept == \A s \in announced' : Sentinel(s)'

\* C9 as claimed: after an attach notification for s is handled, the next poll tick
\* that finds s in the host list publishes its normalized state whatever timestamp
\* the device reports.
C9_Original ==
    [][/\ AttachWritesSentinel
       /\ SentinelKept
       /\ \A t \in DOMAIN timers, s \in announced \cap DOMAIN GetGamepads.pads :
             TickStep(t) => Published(s, t)']_vars

\* C9 as amended: after an attach notification for s is handled (device entry
\* written, stored timestamp set to the zero sentinel whatever was recorded before,
\* flag true), the next poll tick that finds s in the host list with a non-zero
\* timestamp publishes its normalized state; a device that reports timestamp 0 is
\* passed over, its entries and the sentinel staying as they are.
C9_AttachThenPollPublishes ==
    [][/\ AttachWritesSentinel
       /\ SentinelKept
       /\ \A t \in DOMAIN timers, s \in announced \cap DOMAIN GetGamepads.pads :
             TickStep(t) =>
                 IF host[s].timestamp # 0
                 THEN Published(s, t)'
                 ELSE Sentinel(s)' /\ SameEntry(buttonStates, buttonStates', s)
                                   /\ SameEntry(axisStates, axisStates', s)]_vars

\* the state a tick leaves when it publishes the pad of slot 0: the device entry and
\* the flag are set, no notification waits, no announced pad is left to be found
\* and the stored timestamp is the one reported
C9_Witness ==
    /\ phase = "active"
    /\ hasGetGamepads
    /\ hostEvents = 3
    /\ pending = <<>>
    /\ announced = {}
    /\ DOMAIN host = {0}
    /\ DOMAIN gamepads = {0}
    /\ isGamepadConnected
    /\ host[0].timestamp = 1
    /\ \E t \in DOMAIN timers : Published(0, t)

\* the slots the host reports as present
Reported == {i \in DOMAIN GetGamepads.pads : i < GetGamepads.length}

\* C10: right after the first run of the mount effect gamepads holds exactly the
\* slots the host reports as present, and isGamepadConnected is true exactly when
\* the host reports at least one.
C10_StartSeedsFromScan ==
    [][SessionStart =>
          /\ DOMAIN gamepads' = Reported
          /\ \A s \in Reported : gamepads'[s] = Descriptor(s)
          /\ isGamepadConnected' <=> (Reported # {})
          /\ buttonStates' = Empty /\ axisStates' = Empty]_vars

\* the session has started on a host that already listed a pad whose attach
\* notification is still waiting: the device entry and the flag come from the scan
C10_Witness ==
    /\ phase = "active"
    /\ hostEvents = 1
    /\ Len(pending) = 1
    /\ DOMAIN host = {0}
    /\ DOMAIN gamepads = {0}
    /\ isGamepadConnected
    /\ Sentinel(0)
    /\ buttonStates = Empty

\* C11: on a host without navigator.getGamepads the device list reads as empty and
\* nothing fails: a poll tick writes neither buttonStates nor axisStates nor a stored
\* timestamp, the scan of an effect run adds nothing (the first session start leaves
\* gamepads empty and isGamepadConnected false, a restart leaves both as they were),
\* and a handled detach sets the flag to false.
C11_NoCapabilityReadsEmpty ==
    [][~hasGetGamepads =>
          /\ GetGamepads.length = 0
          /\ \A dz \in Deadzones : CheckGamepadInputs(dz).writes = 0
          /\ (\E t \in DOMAIN timers : PollTick(t)) =>
                /\ buttonStates' = buttonStates
                /\ axisStates' = axisStates
                /\ prevTimestamps' = prevTimestamps
          /\ SessionStart =>
                /\ gamepads' = Empty
                /\ isGamepadConnected' = FALSE
                /\ prevTimestamps' = Empty
          /\ (\E dz \in Deadzones : Restart(dz)) =>
                /\ gamepads' = gamepads
                /\ isGamepadConnected' = isGamepadConnected
                /\ prevTimestamps' = prevTimestamps
          /\ HandleGamepadDisconnected => isGamepadConnected' = FALSE]_vars

\* a session runs on a host without the capability while a pad with a non-zero
\* timestamp sits in slot 0: the start scan did not see it and no tick publishes it
C11_Witness ==
    /\ ~hasGetGamepads
    /\ phase = "active"
    /\ timers # Empty
    /\ pending = <<>>
    /\ DOMAIN host = {0}
    /\ host[0].timestamp # 0
    /\ gamepads = Empty
    /\ buttonStates = Empty
    /\ axisStates = Empty
    /\ prevTimestamps = Empty
    /\ ~isGamepadConnected

\* the five things the session publishes or keeps for the poll
Store == <<gamepads, buttonStates, axisStates, isGamepadConnected, prevTimestamps>>

\* C12: the unmount cancels the interval and removes both handlers, so that after it
\* no interval is running and no handler is registered; no step taken after it (a
\* notification raised before or after it being dispatched, the host changing its
\* devices) changes gamepads, buttonStates, axisStates, isGamepadConnected or the
\* stored timestamps; and the cleanup called again changes nothing at all.
C12_TeardownStopsAll ==
    [][/\ Teardown => timers' = Empty /\ listeners' = {}
       /\ phase' = "unmounted" => ~(\E t \in DOMAIN timers' : TRUE) /\ listeners' = {}
       /\ phase = "unmounted" => phase' = "unmounted" /\ Store' = Store
       /\ TeardownAgain => vars' = vars]_vars

\* after the unmount the host plugged a pad in and its notification reached nobody:
\* the host lists a pad the store knows nothing about
C12_Witness ==
    /\ phase = "unmounted"
    /\ hasGetGamepads
    /\ pending = <<>>
    /\ DOMAIN host = {0}
    /\ host[0].timestamp # 0
    /\ gamepads = Empty
    /\ buttonStates = Empty
    /\ prevTimestamps = Empty
    /\ ~isGamepadConnected
    /\ timers = Empty
    /\ listeners = {}
    /\ intervalRef # {}

\* a detach notification for slot s is at the head of the queue and will be handled
DetachDue(s) ==
    /\ pending # <<>>
    /\ Head(pending).type = "gamepaddisconnected"
    /\ Head(pending).gamepad.index = s
    /\ listeners # {}

\* slot s has no entry in any of the four mappings
Unknown(s) ==
    /\ s \notin DOMAIN gamepads
    /\ s \notin DOMAIN buttonStates
    /\ s \notin DOMAIN axisStates
    /\ s \notin DOMAIN prevTimestamps

\* C13: a handled detach for slot s leaves every mapping that has no entry for s
\* exactly as it was (all four, when s is unknown), and leaves s unknown, so the
\* same detach delivered again would find nothing to remove: twice is once.
C13_UnknownDetachIsNoOp ==
    [][\A s \in Slots : (HandleGamepadDisconnected /\ Head(pending).gamepad.index = s) =>
          /\ s \notin DOMAIN gamepads => gamepads' = gamepads
          /\ s \notin DOMAIN buttonStates => buttonStates' = buttonStates
          /\ s \notin DOMAIN axisStates => axisStates' = axisStates
          /\ s \notin DOMAIN prevTimestamps => prevTimestamps' = prevTimestamps
          /\ Unknown(s) => <<gamepads, buttonStates, axisStates, prevTimestamps>>' =
                           <<gamepads, buttonStates, axisStates, prevTimestamps>>
          /\ Unknown(s)'
          /\ Delete(gamepads', s) = gamepads'
          /\ Delete(buttonStates', s) = buttonStates'
          /\ Delete(axisStates', s) = axisStates'
          /\ Delete(prevTimestamps', s) = prevTimestamps']_vars

\* a detach for slot 0 is about to be handled by a session that never heard of
\* slot 0, while slot 1 has a full set of entries
C13_Witness ==
    /\ DetachDue(0)
    /\ Unknown(0)
    /\ 1 \in DOMAIN gamepads
    /\ 1 \in DOMAIN buttonStates
    /\ 1 \in DOMAIN axisStates
    /\ 1 \in DOMAIN prevTimestamps

\* C14: a poll tick gives every slot it finds changed exactly the newly normalized
\* mappings (their keys are the indices of the new raw lists, nothing of the
\* previous mapping survives), leaves the button and axis entries of every other
\* slot as they were, and leaves gamepads and isGamepadConnected alone.
C14_FullReplace ==
    [][\A t \in DOMAIN timers : TickStep(t) =>
          LET changed == SeenChanged IN
          /\ \A s \in changed :
                /\ s \in DOMAIN buttonStates' /\ s \in DOMAIN axisStates'
                /\ buttonStates'[s] = PadButtons(host[s].buttons)
                /\ DOMAIN buttonStates'[s] = Indices(host[s].buttons)
                /\ axisStates'[s] = PadAxes(host[s].axes, timers[t])
                /\ DOMAIN axisStates'[s] = Indices(host[s].axes)
          /\ \A s \in (Slots \cup DOMAIN buttonStates \cup DOMAIN axisStates) \ changed :
                /\ SameEntry(buttonStates, buttonStates', s)
                /\ SameEntry(axisStates, axisStates', s)
          /\ gamepads' = gamepads
          /\ isGamepadConnected' = isGamepadConnected]_vars

\* slot 0 holds two buttons and two axes of an earlier report while its pad now
\* reports one of each under a new timestamp; slot 1 is up to date: the tick due
\* now replaces the entries of slot 0 and passes slot 1 over
C14_Witness ==
    /\ timers # Empty
    /\ hasGetGamepads
    /\ DOMAIN host = {0, 1}
    /\ DOMAIN buttonStates = {0, 1}
    /\ DOMAIN buttonStates[0] = {0, 1}
    /\ DOMAIN axisStates[0] = {0, 1}
    /\ Len(host[0].buttons) = 1
    /\ Len(host[0].axes) = 1
    /\ SeenChanged = {0}
    /\ prevTimestamps[1] = host[1].timestamp

\* C15: a poll tick that normalizes a device publishes for it a button mapping whose
\* keys are exactly the positions 0..n-1 of the raw button list, each holding the raw
\* pressed, value and touched as reported (a value below the deadzone included); an
\* empty button list gives the empty button mapping and an empty axis list the empty
\* axis mapping.
C15_ButtonsVerbatim ==
    [][\A t \in DOMAIN timers : PollTick(t) =>
          \A s \in SeenChanged :
             /\ s \in DOMAIN buttonStates' /\ s \in DOMAIN axisStates'
             /\ DOMAIN buttonStates'[s] = 0..(Len(host[s].buttons) - 1)
             /\ \A k \in DOMAIN buttonStates'[s] :
                   /\ buttonStates'[s][k].pressed = host[s].buttons[k + 1].pressed
                   /\ buttonStates'[s][k].value = host[s].buttons[k + 1].value
                   /\ buttonStates'[s][k].touched = host[s].buttons[k + 1].touched
                   /\ DOMAIN buttonStates'[s][k] = {"pressed", "value", "touched"}
             /\ host[s].buttons = <<>> => buttonStates'[s] = Empty
             /\ host[s].axes = <<>> => axisStates'[s] = Empty]_vars

\* a pad with two buttons (one pressed with a value below the deadzone) and no axes
\* was normalized: both buttons are stored as reported and the axis mapping is empty
C15_Witness ==
    /\ 0 \in DOMAIN host /\ 0 \in DOMAIN buttonStates /\ 0 \in DOMAIN axisStates
    /\ host[0].timestamp # 0
    /\ 0 \in DOMAIN prevTimestamps /\ prevTimestamps[0] = host[0].timestamp
    /\ host[0].buttons = <<Released, Pressed>>
    /\ host[0].axes = <<>>
    /\ buttonStates[0] = (0 :> Released @@ 1 :> Pressed)
    /\ Pressed.value < deadzone
    /\ axisStates[0] = Empty

\* what the tick of timer t makes of slot s: the normalization of its snapshot
PublishedBy(r, s, t) ==
    /\ s \in DOMAIN r.buttonStates /\ s \in DOMAIN r.axisStates /\ s \in DOMAIN r.prevTimestamps
    /\ r.buttonStates[s] = PadButtons(host[s].buttons)
    /\ r.axisStates[s] = PadAxes(host[s].axes, timers[t])
    /\ r.prevTimestamps[s] = host[s].timestamp

\* C16: the tick of any running timer, run in any reachable state, normalizes and
\* publishes a host-listed device at slot s (two store writes, the entries of s
\* equal to the normalization of its snapshot, its timestamp recorded) exactly when
\* the reported timestamp is non-zero and differs from the stored one, a lower one
\* included; otherwise, and always when the reported timestamp is 0, it writes
\* nothing for s.
C16_ChangedIffDifferentAndTruthy ==
    \A t \in DOMAIN timers :
        LET r == CheckGamepadInputs(timers[t])
            differs(s) == \/ s \notin DOMAIN prevTimestamps
                          \/ prevTimestamps[s] > host[s].timestamp
                          \/ prevTimestamps[s] < host[s].timestamp
            changed == {s \in DOMAIN GetGamepads.pads : host[s].timestamp # 0 /\ differs(s)}
        IN /\ r.writes = 2 * Cardinality(changed)
           /\ \A s \in DOMAIN GetGamepads.pads :
                 IF s \in changed
                 THEN PublishedBy(r, s, t)
                 ELSE /\ SameEntry(buttonStates, r.buttonStates, s)
                      /\ SameEntry(axisStates, r.axisStates, s)
                      /\ SameEntry(prevTimestamps, r.prevTimestamps, s)

\* the slot holds the published state and the timestamp of a device that was swapped
\* for one with a lower non-zero timestamp and other inputs; neither notification
\* has been handled, and the tick due now publishes the new device
C16_Witness ==
    /\ timers # Empty
    /\ hasGetGamepads
    /\ 0 \in DOMAIN host /\ 0 \in DOMAIN prevTimestamps /\ 0 \in DOMAIN buttonStates
    /\ host[0].timestamp # 0
    /\ host[0].timestamp < prevTimestamps[0]
    /\ buttonStates[0] # PadButtons(host[0].buttons)
    /\ Len(pending) = 2

\* C17: a handled detach leaves isGamepadConnected equal to whether the host's list,
\* asked at that moment, has a device in some slot, whatever the local store holds;
\* on a host without navigator.getGamepads that is false.
C17_FlagFromHostList ==
    [][HandleGamepadDisconnected =>
          /\ isGamepadConnected' = (hasGetGamepads /\ DOMAIN host # {})
          /\ ~hasGetGamepads => isGamepadConnected' = FALSE]_vars

\* on a host without the capability the detach of slot 0 was handled: the flag is
\* false although the device of slot 1 is still there, in the host and in gamepads
C17_Witness ==
    /\ ~hasGetGamepads
    /\ phase = "active"
    /\ pending = <<>>
    /\ DOMAIN host = {1}
    /\ DOMAIN gamepads = {1}
    /\ ~isGamepadConnected

\* the snapshots the host can hold for slot s
Snapshots(s) ==
    {Snapshot(s, ts, raw.buttons, raw.axes) : ts \in Timestamps, raw \in RawInputs}

\* an active session's host lists snap, with a non-zero timestamp, at its slot
Listed(snap) ==
    /\ phase = "active"
    /\ hasGetGamepads
    /\ snap.index \in DOMAIN host
    /\ host[snap.index] = snap
    /\ snap.timestamp # 0

\* the entries of slot s are the normalization of what the host lists there, taken
\* with the deadzone of the running poll
Fresh(s) ==
    /\ s \in DOMAIN host /\ s \in DOMAIN buttonStates /\ s \in DOMAIN axisStates
    /\ timers # Empty
    /\ buttonStates[s] = PadButtons(host[s].buttons)
    /\ \A t \in DOMAIN timers : axisStates[s] = PadAxes(host[s].axes, timers[t])

\* C18 as claimed: whenever the host lists a device with a non-zero timestamp, the
\* next poll tick leaves its entries equal to the normalization of its snapshot.
C18_Original ==
    \A t \in DOMAIN timers :
        LET r == CheckGamepadInputs(timers[t]) IN
        \A s \in DOMAIN GetGamepads.pads :
            host[s].timestamp # 0 =>
                /\ s \in DOMAIN r.buttonStates /\ s \in DOMAIN r.axisStates
                /\ r.buttonStates[s] = PadButtons(host[s].buttons)
                /\ r.axisStates[s] = PadAxes(host[s].axes, timers[t])

\* the next tick publishes every listed device whose non-zero timestamp differs from
\* the stored one
FreshByNextTick ==
    \A t \in DOMAIN timers :
        LET r == CheckGamepadInputs(timers[t]) IN
        \A s \in DOMAIN GetGamepads.pads :
            (host[s].timestamp # 0 /\ s \in SeenChanged) => PublishedBy(r, s, t)

\* C18 as amended: under a fair timer and event loop, a device the host keeps listing
\* with a fixed snapshot and a non-zero timestamp eventually has entries equal to the
\* normalization of that snapshot (with the deadzone of the running poll); it has
\* them by the next tick when its timestamp differs from the stored one, and
\* otherwise once its pending notifications are handled and a tick follows; fresh
\* entries stay fresh while the host, the queue of notifications and the running
\* poll stay as they are.
C18_EventuallyFresh ==
    /\ \A snap \in Snapshots(0) : Listed(snap) ~> (Fresh(0) \/ ~Listed(snap))
    /\ []FreshByNextTick
    /\ [][(Fresh(0) /\ UNCHANGED <<host, pending, timers>>) => Fresh(0)']_vars

\* the pad with an axis between the two deadzones is listed and fresh under the
\* larger deadzone: that axis is stored as 0 and the stored timestamp is the reported one
C18_Witness ==
    /\ phase = "active"
    /\ hasGetGamepads
    /\ Fresh(0)
    /\ host[0].timestamp # 0
    /\ prevTimestamps[0] = host[0].timestamp
    /\ host[0].axes = <<50000, 10004>>
    /\ deadzone = 20000
    /\ axisStates[0] = (0 :> 50000 @@ 1 :> 0)
    /\ pending = <<>>

OneTimerOnePair ==
    /\ Cardinality(DOMAIN timers) <= 1
    /\ Cardinality(listeners) <= 1
    /\ phase \in {"active", "committed"} =>
          /\ Cardinality(DOMAIN timers) = 1
          /\ DOMAIN timers = intervalRef
          /\ listeners = intervalRef
    /\ phase \in {"init", "unmounted"} => timers = Empty /\ listeners = {}

\* C20 as claimed: at most one interval and one handler pair at any time, and the
\* running poll normalizes with the deadzone of the current render.
C20_Original ==
    /\ OneTimerOnePair
    /\ \A t \in DOMAIN timers : timers[t] = deadzone

\* C20 as amended: across starts, restarts and the unmount at most one interval and
\* one handler pair exist at any time (every run of the effect after the first comes
\* after the cleanup of the previous one), and once the effect of the latest render
\* has run the running poll normalizes with the current deadzone; between the commit
\* of a render that changes the deadzone and its effect the previous poll is still
\* the running one, with the deadzone it was started with.
C20_OneTimerAndDeadzoneAfterEffect ==
    [][/\ OneTimerOnePair
       /\ phase = "active" => \A t \in DOMAIN timers : timers[t] = deadzone
       /\ (\E dz \in Deadzones : Restart(dz)) \/ FlushEffect =>
             /\ Cardinality(DOMAIN timers') = 1
             /\ Cardinality(listeners') = 1
             /\ \A t \in DOMAIN timers' : timers'[t] = deadzone'
       /\ (\E dz \in Deadzones : Render(dz)) => timers' = timers /\ listeners' = listeners]_vars

\* a render with the larger deadzone is committed and its effect has not run: the
\* interval started with the smaller deadzone is the only one and has just published
\* with it a value that is not above the current deadzone
C20_Witness ==
    /\ phase = "committed"
    /\ deadzone = 20000
    /\ Cardinality(DOMAIN timers) = 1
    /\ \A t \in DOMAIN timers : timers[t] = 10000
    /\ 0 \in DOMAIN axisStates
    /\ 0 \in DOMAIN prevTimestamps /\ prevTimestamps[0] = host[0].timestamp
    /\ axisStates[0] = (0 :> 50000 @@ 1 :> 10000)

\* buttonStates and axisStates have the same slots, each with a stored timestamp
PairedEntries ==
    /\ DOMAIN buttonStates = DOMAIN axisStates
    /\ DOMAIN buttonStates \subseteq DOMAIN prevTimestamps

\* slot s has entries while its stored timestamp is the zero sentinel
EntriesUnderSentinel(s) == s \in DOMAIN buttonStates /\ Sentinel(s)

\* C21 as claimed: buttonStates and axisStates have the same slots, and a slot with
\* entries has a non-zero stored timestamp unless an attach notification for it was
\* handled since: only the attach handler puts the sentinel over existing entries.
C21_Original ==
    /\ []PairedEntries
    /\ [][\A s \in Slots :
             (EntriesUnderSentinel(s)' /\ ~EntriesUnderSentinel(s)) =>
                 (HandleGamepadConnected /\ Head(pending).gamepad.index = s)]_vars

\* C21 as amended: in every reachable state buttonStates and axisStates have the
\* same slots and every such slot has a stored timestamp; it is non-zero unless the
\* sentinel was put over the entries since they were published, which the attach
\* handler does for its slot and the scan of a restarted session does for every
\* slot the host lists.
C21_PairedEntriesWithTimestamp ==
    /\ []PairedEntries
    /\ [][\A s \in Slots :
             (EntriesUnderSentinel(s)' /\ ~EntriesUnderSentinel(s)) =>
                 \/ HandleGamepadConnected /\ Head(pending).gamepad.index = s
                 \/ (\E dz \in Deadzones : Restart(dz)) /\ s \in DOMAIN GetGamepads.pads]_vars

\* one attach was all the host did; the pad's entries were published under the
\* smaller deadzone and a restart with the larger one has put the sentinel over them
C21_Witness ==
    /\ hostEvents = 1
    /\ pending = <<>>
    /\ phase = "active"
    /\ deadzone = 20000
    /\ DOMAIN host = {0}
    /\ host[0].timestamp # 0
    /\ DOMAIN buttonStates = {0}
    /\ axisStates = (0 :> (0 :> 50000 @@ 1 :> 10000))
    /\ EntriesUnderSentinel(0)

====
